---- MODULE Spec2Model ----
(***************************************************************************)
(* Model of deeph3/util.py: bin tables, binning and debinning of pairwise  *)
(* matrices, residue masks, the bin decision layer, the contact functions  *)
(* on logits, the structure entry points and split_dir.                    *)
(*                                                                         *)
(* Real numbers are held in fixed point: the integer v stands for the real *)
(* v / Scale.  Scale is a multiple of 8 and of every admissible num_bins,  *)
(* so that every bin boundary and every half width of the tables is exact. *)
(* Floating point rounding is outside the model.                           *)
(***************************************************************************)
EXTENDS Integers, Sequences, FiniteSets

\* Largest number of bins the model draws (num_bins ranges over 3..MaxNumBins).
MaxNumBins == 6

\* Number of probe steps of 1/8 above zero for distance probes.
MaxProbe == 60

\* Smallest num_bins for which the tables are defined (bin_values[2] exists).
MinNumBins == 3

\* Number of residues of a structure (matrices are NumResidues x NumResidues).
NumResidues == 2

VARIABLES
    pc,          \* position in the run of the function under study
    num_bins,    \* the num_bins argument
    kind,        \* which table: "dist", "angle", "omega", "theta", "phi"
    bins,        \* the bin table returned by get_*_bins
    bin_values,  \* the list returned by get_bin_values
    probe,       \* a real value probed against the table
    residues,    \* the residues of the structure, in sequence order
    mask,        \* the caller's mask: 1 on valid residues, 0 on invalid ones
    feat,        \* the continuous matrix (or stack) a generator returned
    binned,      \* the integer matrix (or stack) a binning function returned
    values,      \* the matrix (or stack) a debinning function returned
    mat,         \* the matrix mask_matrix_ works on, in place
    mat_before,  \* that matrix as it was passed in
    probs,       \* the probabilities handed to bin_matrix, per cell and bin
    method,      \* the method argument of bin_matrix
    predicted,   \* the tensor bin_matrix returned
    error,       \* the exception the call raised, if any
    logits,      \* the tensor of logits handed to a function, per pair and bin
    ndim,        \* the number of dimensions of the tensor bin_matrix is given
    ang8_bin,    \* the ang8_bin argument of the contact functions
    contacts,    \* what contact_probs and the functions built on it returned
    fs_dirs,     \* the directories that exist on the file system
    fs_before,   \* the directories that existed when split_dir was called
    dir_names,   \* the dir_names argument of split_dir
    proportions, \* the split_proportions argument, in parts of PropDen
    files,       \* the shuffled files of the directory being split
    copied,      \* the copies made so far: pairs <<directory, file>>
    cur_index,   \* cur_index of split_dir
    loop_i       \* index of the directory the running loop of split_dir is at

binVars == <<kind, bins, bin_values, probe>>
pipeVars == <<residues, mask, feat, binned, values>>

matVars == <<mat, mat_before>>
decVars == <<probs, method, predicted, error>>
logitVars == <<logits, ndim, ang8_bin, contacts>>
fsVars ==
    <<fs_dirs, fs_before, dir_names, proportions, files, copied, cur_index, loop_i>>

vars == <<pc, num_bins, binVars, pipeVars, matVars, decVars, logitVars, fsVars>>

\* A variable no function of the run has written yet.
Unset == <<>>

IdleBins == kind = "none" /\ bins = Unset /\ bin_values = Unset /\ probe = 0
IdleMat == mat = Unset /\ mat_before = Unset
IdleDec == probs = Unset /\ method = "none" /\ predicted = Unset /\ error = "none"
IdlePipe ==
    /\ residues = Unset /\ mask = Unset
    /\ feat = Unset /\ binned = Unset /\ values = Unset
IdleLogits == logits = Unset /\ ndim = 0 /\ ang8_bin = 0 /\ contacts = Unset
IdleFs ==
    /\ fs_dirs = {} /\ fs_before = {} /\ dir_names = Unset
    /\ proportions = Unset /\ files = Unset /\ copied = {}
    /\ cur_index = 0 /\ loop_i = 0

---------------------------------------------------------------------------
\* Fixed point arithmetic.

RECURSIVE GCD(_, _)
GCD(a, b) == IF b = 0 THEN a ELSE GCD(b, a % b)

LCM(a, b) == (a * b) \div GCD(a, b)

RECURSIVE LCMUpTo(_)
LCMUpTo(n) == IF n <= 1 THEN 1 ELSE LCM(n, LCMUpTo(n - 1))

\* Number of fixed point units in 1.0.
Scale == 8 * LCMUpTo(MaxNumBins)

\* The real number x (an integer literal of the source) in fixed point.
Real(x) == x * Scale

\* float('Inf'): compares greater than every finite value of the model.
Inf == 2147483647

---------------------------------------------------------------------------
\* Bin tables.  A table is a sequence of pairs <<lower_bound, upper_bound>>;
\* bin index i of the source is position i + 1 of the sequence.

get_dist_bins_short(n) ==
    LET first_bin == Real(4)
        half == Real(1) \div 2
        bins_ == [i \in 1..(n - 3) |->
                    <<first_bin + half * (i - 1), first_bin + half + half * (i - 1)>>]
        last == IF Len(bins_) = 0 THEN first_bin ELSE bins_[Len(bins_)][2]
    IN  <<<<0, first_bin>>>> \o Append(bins_, <<last, Inf>>)

get_dist_bins(n) ==
    LET first_bin == Real(4)
        half == Real(1) \div 2
        bins_ == [i \in 1..(n - 2) |->
                    <<first_bin + half * (i - 1), first_bin + half + half * (i - 1)>>]
        appended == Append(bins_, <<bins_[Len(bins_)][2], Inf>>)
    IN  <<<<0, first_bin>>>> \o appended

get_angle_bins(n) ==
    LET first_bin == Real(0 - 180)
        bin_width == Real(2 * 180) \div n
    IN  [i \in 1..n |-> <<first_bin + bin_width * (i - 1), first_bin + bin_width * i>>]

get_omega_bins(n) ==
    LET first_bin == Real(0 - 180)
        bin_width == Real(2 * 180) \div n
    IN  [i \in 1..n |-> <<first_bin + bin_width * (i - 1), first_bin + bin_width * i>>]

get_theta_bins(n) ==
    LET first_bin == Real(0 - 180)
        bin_width == Real(2 * 180) \div n
    IN  [i \in 1..n |-> <<first_bin + bin_width * (i - 1), first_bin + bin_width * i>>]

get_phi_bins_wide(n) ==
    LET first_bin == 0
        bin_width == Real(2 * 180) \div n
    IN  [i \in 1..n |-> <<first_bin + bin_width * (i - 1), first_bin + bin_width * i>>]

get_phi_bins(n) ==
    LET first_bin == 0
        bin_width == Real(180) \div n
    IN  [i \in 1..n |-> <<first_bin + bin_width * (i - 1), first_bin + bin_width * i>>]

get_bin_values_plain(bins_) ==
    LET lows == [k \in 1..Len(bins_) |-> bins_[k][1]]
        bin_width == (lows[3] - lows[2]) \div 2
    IN  [k \in 1..Len(bins_) |-> lows[k] + bin_width]

get_bin_values_whole_width(bins_) ==
    LET lows == [k \in 1..Len(bins_) |-> bins_[k][1]]
        bin_width == lows[3] - lows[2]
        shifted == [k \in 1..Len(bins_) |-> lows[k] + bin_width]
    IN  [shifted EXCEPT ![1] = shifted[2] - 2 * bin_width]

get_bin_values(bins_) ==
    LET lows == [k \in 1..Len(bins_) |-> bins_[k][1]]
        bin_width == (lows[3] - lows[2]) \div 2
        shifted == [k \in 1..Len(bins_) |-> lows[k] + bin_width]
    IN  [shifted EXCEPT ![1] = shifted[2] - 2 * bin_width]

\* v >= lower_bound and v < upper_bound, as in the bin_mask expressions.
InBin(v, bin) == v >= bin[1] /\ v < bin[2]

---------------------------------------------------------------------------
\* Specification SpecBins: the bin table generator applied to every
\* num_bins of the range, each table probed with one value.

Kinds == {"dist", "angle", "omega", "theta", "phi"}

\* Distances from -1.0 up, in steps of 1/8.
DistProbes == {k * (Scale \div 8) : k \in (0 - 8)..MaxProbe}

\* Angles from -200 to 200 degrees in steps of 5 degrees.
AngleProbes == {Real(5 * k) : k \in (0 - 40)..40}

InitBins ==
    /\ pc = "start"
    /\ num_bins \in MinNumBins..MaxNumBins
    /\ kind \in Kinds
    /\ probe \in (IF kind = "dist" THEN DistProbes ELSE AngleProbes)
    /\ bins = Unset
    /\ bin_values = Unset
    /\ IdlePipe /\ IdleMat /\ IdleDec /\ IdleLogits /\ IdleFs

GetDistBins ==
    /\ pc = "start" /\ kind = "dist"
    /\ bins' = get_dist_bins(num_bins)
    /\ pc' = "bins"
    /\ UNCHANGED <<num_bins, logitVars, fsVars, kind, bin_values, probe, pipeVars, matVars, decVars>>

GetAngleBins ==
    /\ pc = "start" /\ kind = "angle"
    /\ bins' = get_angle_bins(num_bins)
    /\ pc' = "bins"
    /\ UNCHANGED <<num_bins, logitVars, fsVars, kind, bin_values, probe, pipeVars, matVars, decVars>>

GetOmegaBins ==
    /\ pc = "start" /\ kind = "omega"
    /\ bins' = get_omega_bins(num_bins)
    /\ pc' = "bins"
    /\ UNCHANGED <<num_bins, logitVars, fsVars, kind, bin_values, probe, pipeVars, matVars, decVars>>

GetThetaBins ==
    /\ pc = "start" /\ kind = "theta"
    /\ bins' = get_theta_bins(num_bins)
    /\ pc' = "bins"
    /\ UNCHANGED <<num_bins, logitVars, fsVars, kind, bin_values, probe, pipeVars, matVars, decVars>>

GetPhiBins ==
    /\ pc = "start" /\ kind = "phi"
    /\ bins' = get_phi_bins(num_bins)
    /\ pc' = "bins"
    /\ UNCHANGED <<num_bins, logitVars, fsVars, kind, bin_values, probe, pipeVars, matVars, decVars>>

GetBinValues ==
    /\ pc = "bins"
    /\ bin_values' = get_bin_values(bins)
    /\ pc' = "values"
    /\ UNCHANGED <<num_bins, logitVars, fsVars, kind, bins, probe, pipeVars, matVars, decVars>>

NextBins ==
    \/ GetDistBins
    \/ GetAngleBins
    \/ GetOmegaBins
    \/ GetThetaBins
    \/ GetPhiBins
    \/ GetBinValues

SpecBins == InitBins /\ [][NextBins]_vars

---------------------------------------------------------------------------
\* Residues.  Coordinates are integer vectors on a grid of 1/8 length unit;
\* the positions below are chosen so that every pairwise distance is a whole
\* number of grid steps, which keeps the Euclidean norm exact.

Idx == 1..NumResidues

\* Fixed point units in one grid step.
GridStep == Scale \div 8

Origin == <<0, 0, 0>>

\* atoms: the atoms the structure file resolves for the residue; ca, cb:
\* their coordinates; tors: the side chain direction in degrees, from which
\* the pairwise angles of the residue are read (see Torsion).
Conformations ==
    { [atoms |-> {"N", "CA", "C", "CB"}, ca |-> <<9, 8, 0>>,  cb |-> <<9, 0, 0>>,   tors |-> 0],
      [atoms |-> {"N", "CA", "C", "CB"}, ca |-> <<30, 8, 0>>, cb |-> <<30, 0, 0>>,  tors |-> 1],
      [atoms |-> {"N", "CA", "C", "CB"}, ca |-> <<42, 8, 0>>, cb |-> <<42, 0, 0>>,  tors |-> 61],
      [atoms |-> {"N", "CA", "C", "CB"}, ca |-> <<0, 24, 40>>, cb |-> <<0, 24, 32>>, tors |-> 0 - 100],
      [atoms |-> {"N", "CA", "C"},       ca |-> <<75, 0, 0>>, cb |-> Origin,        tors |-> 180],
      [atoms |-> {"N"},                  ca |-> Origin,       cb |-> Origin,        tors |-> 45] }

get_cb_or_ca(r) ==
    IF "CB" \in r.atoms THEN r.cb
    ELSE IF "CA" \in r.atoms THEN r.ca
    ELSE Origin

get_cb(r) == IF "CB" \in r.atoms THEN r.cb ELSE Origin

\* torch.ByteTensor([1 if sum(_) != 0 else 0 for _ in cb_coords])
cb_mask_of(rs) ==
    [i \in Idx |-> IF get_cb(rs[i])[1] + get_cb(rs[i])[2] + get_cb(rs[i])[3] # 0
                   THEN 1 ELSE 0]

RECURSIVE SqrtFrom(_, _)
SqrtFrom(s, r) == IF r * r >= s THEN r ELSE SqrtFrom(s, r + 1)

\* (a - b).norm(), in fixed point; defined where the norm is a whole number
\* of grid steps.
Norm(a, b) ==
    LET s == (a[1] - b[1]) * (a[1] - b[1]) + (a[2] - b[2]) * (a[2] - b[2])
               + (a[3] - b[3]) * (a[3] - b[3])
        r == CHOOSE x \in {SqrtFrom(s, 0)} : x * x = s
    IN  r * GridStep

\* The result of a float 0/0: every comparison with it is false.
NaN == 0 - Inf

\* Degrees folded into (-180, 180], the range of atan2.
Wrap180(d) ==
    LET m == (d + 180) % 360
    IN  IF m = 0 THEN 180 ELSE m - 180

Abs(x) == IF x < 0 THEN 0 - x ELSE x

\* The trigonometry of the angle generators is floating point and is not
\* computed here: the angle of a pair is read from the two residues' tors
\* values, and ranges over the values atan2 and acos can return.  A pair of
\* coincident CB positions (i = j included) divides 0 by 0.
Torsion(rs, i, j, d) ==
    IF get_cb(rs[i]) = get_cb(rs[j]) THEN NaN ELSE Real(d)

---------------------------------------------------------------------------
\* Masking.  A mask is a function Idx -> {0, 1}; NoMask is mask=None.

NoMask == <<>>

mask_fill_value == -1

AllOnes == [i \in Idx |-> 1]

\* mask & cb_mask on byte tensors of zeros and ones.
BitAnd(m1, m2) == [i \in Idx |-> IF m1[i] = 1 /\ m2[i] = 1 THEN 1 ELSE 0]

\* not_mask = 1 - mask, expanded to rows plus columns; entries where the sum
\* is positive are overwritten.
ApplyNotMask(m, mask_, fill) ==
    LET not_mask == [i \in Idx |-> 1 - mask_[i]]
        expanded == [i \in Idx |-> [j \in Idx |-> not_mask[i] + not_mask[j]]]
    IN  [i \in Idx |-> [j \in Idx |->
            IF expanded[i][j] > 0 THEN fill ELSE m[i][j]]]

\* mask.expand(n, n) & its transpose; entries where the product is 0 are
\* overwritten.
ApplyPairMask(m, mask_, fill) ==
    LET expanded == [i \in Idx |-> [j \in Idx |-> mask_[j]]]
        both == [i \in Idx |-> [j \in Idx |->
                    IF expanded[i][j] = 1 /\ expanded[j][i] = 1 THEN 1 ELSE 0]]
    IN  [i \in Idx |-> [j \in Idx |->
            IF both[i][j] = 0 THEN fill ELSE m[i][j]]]

---------------------------------------------------------------------------
\* Geometry extractor.

generate_dist_matrix(coords, mask_, fill) ==
    LET dist_mat == [i \in Idx |-> [j \in Idx |-> Norm(coords[i], coords[j])]]
    IN  IF mask_ = NoMask THEN dist_mat ELSE ApplyNotMask(dist_mat, mask_, fill)

generate_cb_cb_dihedral(rs, mask_, fill) ==
    LET dihedral_mat == [i \in Idx |-> [j \in Idx |->
            Torsion(rs, i, j, Wrap180(rs[i].tors - rs[j].tors))]]
    IN  ApplyPairMask(dihedral_mat, mask_, fill)

generate_ca_cb_dihedral(rs, mask_, fill) ==
    LET dihedral_mat == [i \in Idx |-> [j \in Idx |->
            Torsion(rs, i, j, Wrap180(rs[i].tors + rs[j].tors))]]
    IN  ApplyPairMask(dihedral_mat, mask_, fill)

generate_ca_cb_cb_planar(rs, mask_, fill) ==
    LET planar_mat == [i \in Idx |-> [j \in Idx |->
            Torsion(rs, i, j, Abs(Wrap180(rs[i].tors - rs[j].tors)))]]
    IN  ApplyPairMask(planar_mat, mask_, fill)

\* A residue whose local frame divides 0 by 0: C - CA or N - CA vanishes
\* because both atoms are absent and default to the origin.
NoFrame(r) ==
    \/ "CA" \notin r.atoms /\ "C" \notin r.atoms
    \/ "CA" \notin r.atoms /\ "N" \notin r.atoms

\* Degrees d as the radian value d / 60, inside the range of atan2 and acos.
Rad(d) == Real(d) \div 60

\* (phi, psi, theta) of the rotation between the frames of residues i and j,
\* in radians; the identity rotation on the diagonal.
EulerAngles(rs, i, j) ==
    IF NoFrame(rs[i]) \/ NoFrame(rs[j]) THEN <<NaN, NaN, NaN>>
    ELSE IF i = j THEN <<0, 0, 0>>
    ELSE << Rad(Wrap180(rs[i].tors - rs[j].tors)),
            Rad(Wrap180(rs[j].tors - rs[i].tors)),
            Rad(Abs(Wrap180(rs[i].tors - rs[j].tors))) >>

generate_euler_matrix(rs, mask_, fill) ==
    LET euler_mat == [i \in Idx |-> [j \in Idx |-> EulerAngles(rs, i, j)]]
    IN  IF mask_ = NoMask THEN euler_mat
        ELSE ApplyNotMask(euler_mat, mask_, <<fill, fill, fill>>)

protein_dist_angle_matrix(rs, mask_) ==
    LET cb_ca_coords == [i \in Idx |-> get_cb_or_ca(rs[i])]
        cb_mask == cb_mask_of(rs)
        mask1 == IF mask_ = NoMask THEN AllOnes ELSE mask_
    IN  << generate_dist_matrix(cb_ca_coords, mask1, Real(mask_fill_value)),
           generate_cb_cb_dihedral(rs, BitAnd(mask1, cb_mask), Real(mask_fill_value)),
           generate_ca_cb_dihedral(rs, BitAnd(mask1, cb_mask), Real(mask_fill_value)),
           generate_ca_cb_cb_planar(rs, BitAnd(mask1, cb_mask), Real(mask_fill_value)) >>

---------------------------------------------------------------------------
\* Binning and debinning engine.

\* v >= lower_bound and v < upper_bound on floats: false for NaN.
Within(v, bin) == v # NaN /\ InBin(v, bin)

\* The loop "for i, (lower_bound, upper_bound) in enumerate(bins)" on one
\* entry of the zero-initialised binned_matrix: k is the table position,
\* acc the entry so far.
RECURSIVE BinLoop(_, _, _, _)
BinLoop(v, bins_, k, acc) ==
    IF k > Len(bins_) THEN acc
    ELSE BinLoop(v, bins_, k + 1, IF Within(v, bins_[k]) THEN k - 1 ELSE acc)

BinEntryClamped(v, bins_) ==
    IF v # NaN /\ v >= bins_[Len(bins_)][2] THEN Len(bins_) - 1
    ELSE BinLoop(v, bins_, 1, 0)

BinEntryShifted(v, bins_) ==
    LET b == BinLoop(v, bins_, 1, 0)
    IN  IF b > 0 THEN b - 1 ELSE 0

BinEntry(v, bins_) == BinLoop(v, bins_, 1, 0)

bin_distance_matrix(dist_matrix, bins_, mask_, fill) ==
    LET binned_matrix == [i \in Idx |-> [j \in Idx |-> BinEntry(dist_matrix[i][j], bins_)]]
    IN  IF mask_ = NoMask THEN binned_matrix
        ELSE ApplyNotMask(binned_matrix, mask_, fill)

bin_euler_matrix(euler_matrix, bins_, mask_, fill) ==
    LET binned_matrix == [i \in Idx |-> [j \in Idx |->
            [k \in 1..3 |-> BinEntry(euler_matrix[i][j][k], bins_)]]]
    IN  IF mask_ = NoMask THEN binned_matrix
        ELSE ApplyNotMask(binned_matrix, mask_, <<fill, fill, fill>>)

bin_dist_angle_matrix(dist_angle_mat, n) ==
    LET dist_bins == get_dist_bins(n)
        omega_bins == get_omega_bins(n)
        theta_bins == get_theta_bins(n)
        phi_bins == get_phi_bins(n)
        table == <<dist_bins, omega_bins, theta_bins, phi_bins>>
    IN  [c \in 1..4 |-> [i \in Idx |-> [j \in Idx |->
            BinEntry(dist_angle_mat[c][i][j], table[c])]]]

\* A Python list indexed by k: a negative k counts from the end.
ListItem(list, k) == IF k >= 0 THEN list[k + 1] ELSE list[Len(list) + k + 1]

binned_dist_mat_to_values(dist_mat, n) ==
    LET dist_bin_values == get_bin_values(get_dist_bins(n))
    IN  [i \in Idx |-> [j \in Idx |-> ListItem(dist_bin_values, dist_mat[i][j])]]

binned_euler_mat_to_values(euler_mat, n) ==
    LET angle_bin_values == get_bin_values(get_angle_bins(n))
    IN  [i \in Idx |-> [j \in Idx |->
            [k \in 1..3 |-> ListItem(angle_bin_values, euler_mat[i][j][k])]]]

binned_mat_to_values(binned_mat, n) ==
    LET tables == <<get_dist_bins(n), get_omega_bins(n), get_theta_bins(n), get_phi_bins(n)>>
    IN  [c \in 1..4 |->
            LET bin_values_ == get_bin_values(tables[c])
            IN  [i \in Idx |-> [j \in Idx |-> ListItem(bin_values_, binned_mat[c][i][j])]]]

---------------------------------------------------------------------------
\* Specification SpecPipe: a structure run through the geometry extractor,
\* the binning engine and the debinning engine.

InitPipe ==
    /\ pc = "input"
    /\ num_bins \in MinNumBins..MaxNumBins
    /\ residues \in [Idx -> Conformations]
    /\ mask \in [Idx -> {0, 1}]
    /\ feat = Unset /\ binned = Unset /\ values = Unset
    /\ IdleBins /\ IdleMat /\ IdleDec /\ IdleLogits /\ IdleFs

Coords == [i \in Idx |-> get_cb_or_ca(residues[i])]

GenerateDistMatrix ==
    /\ pc = "input"
    /\ \E m \in {mask, NoMask} :
          feat' = [fn |-> "generate_dist_matrix", mask |-> m,
                   m |-> generate_dist_matrix(Coords, m, Real(mask_fill_value))]
    /\ pc' = "dist"
    /\ UNCHANGED <<num_bins, logitVars, fsVars, binVars, matVars, decVars, residues, mask, binned, values>>

GenerateCbCbDihedral ==
    /\ pc = "input"
    /\ feat' = [fn |-> "generate_cb_cb_dihedral", mask |-> mask,
                m |-> generate_cb_cb_dihedral(residues, mask, Real(mask_fill_value))]
    /\ pc' = "angle"
    /\ UNCHANGED <<num_bins, logitVars, fsVars, binVars, matVars, decVars, residues, mask, binned, values>>

GenerateCaCbDihedral ==
    /\ pc = "input"
    /\ feat' = [fn |-> "generate_ca_cb_dihedral", mask |-> mask,
                m |-> generate_ca_cb_dihedral(residues, mask, Real(mask_fill_value))]
    /\ pc' = "angle"
    /\ UNCHANGED <<num_bins, logitVars, fsVars, binVars, matVars, decVars, residues, mask, binned, values>>

GenerateCaCbCbPlanar ==
    /\ pc = "input"
    /\ feat' = [fn |-> "generate_ca_cb_cb_planar", mask |-> mask,
                m |-> generate_ca_cb_cb_planar(residues, mask, Real(mask_fill_value))]
    /\ pc' = "angle"
    /\ UNCHANGED <<num_bins, logitVars, fsVars, binVars, matVars, decVars, residues, mask, binned, values>>

GenerateEulerMatrix ==
    /\ pc = "input"
    /\ \E m \in {mask, NoMask} :
          feat' = [fn |-> "generate_euler_matrix", mask |-> m,
                   m |-> generate_euler_matrix(residues, m, Real(mask_fill_value))]
    /\ pc' = "euler"
    /\ UNCHANGED <<num_bins, logitVars, fsVars, binVars, matVars, decVars, residues, mask, binned, values>>

ProteinDistAngleMatrix ==
    /\ pc = "input"
    /\ \E m \in {mask, NoMask} :
          feat' = [fn |-> "protein_dist_angle_matrix", mask |-> m,
                   m |-> protein_dist_angle_matrix(residues, m)]
    /\ pc' = "stack"
    /\ UNCHANGED <<num_bins, logitVars, fsVars, binVars, matVars, decVars, residues, mask, binned, values>>

BinDistanceMatrix ==
    /\ pc = "dist"
    /\ \E m \in {mask, NoMask} :
          binned' = [mask |-> m,
                     m |-> bin_distance_matrix(feat.m, get_dist_bins(num_bins), m,
                                               mask_fill_value)]
    /\ pc' = "dist_binned"
    /\ UNCHANGED <<num_bins, logitVars, fsVars, binVars, matVars, decVars, residues, mask, feat, values>>

BinEulerMatrix ==
    /\ pc = "euler"
    /\ \E m \in {mask, NoMask} :
          binned' = [mask |-> m,
                     m |-> bin_euler_matrix(feat.m, get_angle_bins(num_bins), m,
                                            mask_fill_value)]
    /\ pc' = "euler_binned"
    /\ UNCHANGED <<num_bins, logitVars, fsVars, binVars, matVars, decVars, residues, mask, feat, values>>

BinDistAngleMatrix ==
    /\ pc = "stack"
    /\ binned' = [mask |-> NoMask, m |-> bin_dist_angle_matrix(feat.m, num_bins)]
    /\ pc' = "stack_binned"
    /\ UNCHANGED <<num_bins, logitVars, fsVars, binVars, matVars, decVars, residues, mask, feat, values>>

BinnedDistMatToValues ==
    /\ pc = "dist_binned"
    /\ values' = binned_dist_mat_to_values(binned.m, num_bins)
    /\ pc' = "dist_values"
    /\ UNCHANGED <<num_bins, logitVars, fsVars, binVars, matVars, decVars, residues, mask, feat, binned>>

BinnedEulerMatToValues ==
    /\ pc = "euler_binned"
    /\ values' = binned_euler_mat_to_values(binned.m, num_bins)
    /\ pc' = "euler_values"
    /\ UNCHANGED <<num_bins, logitVars, fsVars, binVars, matVars, decVars, residues, mask, feat, binned>>

BinnedMatToValues ==
    /\ pc = "stack_binned"
    /\ values' = binned_mat_to_values(binned.m, num_bins)
    /\ pc' = "stack_values"
    /\ UNCHANGED <<num_bins, logitVars, fsVars, binVars, matVars, decVars, residues, mask, feat, binned>>

NextPipe ==
    \/ GenerateDistMatrix
    \/ GenerateCbCbDihedral
    \/ GenerateCaCbDihedral
    \/ GenerateCaCbCbPlanar
    \/ GenerateEulerMatrix
    \/ ProteinDistAngleMatrix
    \/ BinDistanceMatrix
    \/ BinEulerMatrix
    \/ BinDistAngleMatrix
    \/ BinnedDistMatToValues
    \/ BinnedEulerMatToValues
    \/ BinnedMatToValues

SpecPipe == InitPipe /\ [][NextPipe]_vars

---------------------------------------------------------------------------
\* Specification SpecProbe: the binning functions applied to matrices that
\* hold one value in every entry, the value drawn from the probes of the
\* table (values below, inside and above its range).

Const(v) == [i \in Idx |-> [j \in Idx |-> v]]

\* The (distance, angle) values of a probed stack: every distance with one
\* angle, every angle with one distance.
StackProbes == (DistProbes \X {Real(0)}) \cup ({Real(5)} \X AngleProbes)

InitProbe ==
    /\ num_bins \in MinNumBins..MaxNumBins
    /\ mask \in [Idx -> {0, 1}]
    /\ \/ /\ pc = "dist"
          /\ \E d \in DistProbes :
                feat = [fn |-> "probe", mask |-> NoMask, m |-> Const(d)]
       \/ /\ pc = "euler"
          /\ \E a \in AngleProbes :
                feat = [fn |-> "probe", mask |-> NoMask, m |-> Const(<<a, a, a>>)]
       \/ /\ pc = "stack"
          /\ \E da \in StackProbes :
                feat = [fn |-> "probe", mask |-> NoMask,
                        m |-> <<Const(da[1]), Const(da[2]), Const(da[2]), Const(da[2])>>]
    /\ residues = Unset /\ binned = Unset /\ values = Unset
    /\ IdleBins /\ IdleMat /\ IdleDec /\ IdleLogits /\ IdleFs

NextProbe ==
    \/ BinDistanceMatrix
    \/ BinEulerMatrix
    \/ BinDistAngleMatrix

SpecProbe == InitProbe /\ [][NextProbe]_vars

---------------------------------------------------------------------------
\* Specification SpecDebin: a stack of bin indices, one index per channel in
\* every entry, decoded by binned_mat_to_values and binned again.

InitDebin ==
    /\ pc = "stack_binned"
    /\ num_bins \in MinNumBins..MaxNumBins
    /\ probe \in [1..4 -> 0..(num_bins - 1)]
    /\ binned = [mask |-> NoMask, m |-> [c \in 1..4 |-> Const(probe[c])]]
    /\ residues = Unset /\ mask = Unset /\ feat = Unset /\ values = Unset
    /\ kind = "none" /\ bins = Unset /\ bin_values = Unset
    /\ IdleMat /\ IdleDec /\ IdleLogits /\ IdleFs

\* bin_dist_angle_matrix applied to what binned_mat_to_values returned.
BinDecodedValues ==
    /\ pc = "stack_values"
    /\ binned' = [mask |-> NoMask, m |-> bin_dist_angle_matrix(values, num_bins)]
    /\ pc' = "stack_rebinned"
    /\ UNCHANGED <<num_bins, logitVars, fsVars, binVars, matVars, decVars,
                   residues, mask, feat, values>>

NextDebin ==
    \/ BinnedMatToValues
    \/ BinDecodedValues

SpecDebin == InitDebin /\ [][NextDebin]_vars

---------------------------------------------------------------------------
\* Specification SpecProtein: the entry points that read a structure.

get_ca(r) == IF "CA" \in r.atoms THEN r.ca ELSE Origin

\* torch.ByteTensor([1 if _ != -1 else 0 for _ in backbone])
backbone_mask_of(rs) ==
    [i \in Idx |-> IF "CB" \in rs[i].atoms \/ "CA" \in rs[i].atoms THEN 1 ELSE 0]

\* torch.ByteTensor([1 if sum(_) != 0 else 0 for _ in ca_coords])
ca_mask_of(rs) ==
    [i \in Idx |-> IF get_ca(rs[i])[1] + get_ca(rs[i])[2] + get_ca(rs[i])[3] # 0
                   THEN 1 ELSE 0]

protein_dist_matrix(rs, mask_) ==
    LET coords == [i \in Idx |-> get_cb_or_ca(rs[i])]
        mask1 == IF mask_ = NoMask THEN backbone_mask_of(rs) ELSE mask_
    IN  generate_dist_matrix(coords, mask1, Real(mask_fill_value))

protein_euler_matrix(rs, mask_) ==
    LET mask1 == IF mask_ = NoMask THEN ca_mask_of(rs) ELSE mask_
    IN  generate_euler_matrix(rs, mask1, Real(mask_fill_value))

ProteinDistMatrix ==
    /\ pc = "input"
    /\ \E m \in {mask, NoMask} :
          feat' = [fn |-> "protein_dist_matrix", mask |-> m,
                   m |-> protein_dist_matrix(residues, m)]
    /\ pc' = "dist"
    /\ UNCHANGED <<num_bins, logitVars, fsVars, binVars, matVars, decVars,
                   residues, mask, binned, values>>

ProteinEulerMatrix ==
    /\ pc = "input"
    /\ \E m \in {mask, NoMask} :
          feat' = [fn |-> "protein_euler_matrix", mask |-> m,
                   m |-> protein_euler_matrix(residues, m)]
    /\ pc' = "euler"
    /\ UNCHANGED <<num_bins, logitVars, fsVars, binVars, matVars, decVars,
                   residues, mask, binned, values>>

\* A residue the structure file resolves without its N atom.
WithoutN ==
    [atoms |-> {"CA", "C", "CB"}, ca |-> <<96, 8, 0>>, cb |-> <<96, 0, 0>>, tors |-> 20]

InitProtein ==
    /\ pc = "input"
    /\ num_bins = 0
    /\ residues \in [Idx -> Conformations \cup {WithoutN}]
    /\ mask \in [Idx -> {0, 1}]
    /\ feat = Unset /\ binned = Unset /\ values = Unset
    /\ IdleBins /\ IdleMat /\ IdleDec /\ IdleLogits /\ IdleFs

NextProtein ==
    \/ ProteinDistMatrix
    \/ ProteinEulerMatrix
    \/ ProteinDistAngleMatrix

SpecProtein == InitProtein /\ [][NextProtein]_vars

---------------------------------------------------------------------------
\* Specification SpecMask: mask_matrix_ applied to a pairwise matrix.

not_mask_fill_value == -1

mask_matrix_(mat_, mask_, fill) ==
    LET expanded == [i \in Idx |-> [j \in Idx |-> mask_[j] + mask_[i]]]
    IN  [i \in Idx |-> [j \in Idx |->
            IF expanded[i][j] > 0 THEN fill ELSE mat_[i][j]]]

\* Two distinct entry values, both different from the fill value.
MatEntries == {Real(2), Real(7)}

InitMask ==
    /\ pc = "input"
    /\ num_bins = 0
    /\ mask \in [Idx -> {0, 1}]
    /\ mat \in [Idx -> [Idx -> MatEntries]]
    /\ mat_before = mat
    /\ residues = Unset /\ feat = Unset /\ binned = Unset /\ values = Unset
    /\ IdleBins /\ IdleDec /\ IdleLogits /\ IdleFs

MaskMatrix ==
    /\ pc = "input"
    /\ mat' = mask_matrix_(mat, mask, Real(not_mask_fill_value))
    /\ pc' = "masked"
    /\ UNCHANGED <<num_bins, logitVars, fsVars, binVars, pipeVars, mat_before, decVars>>

NextMask == MaskMatrix

SpecMask == InitMask /\ [][NextMask]_vars

---------------------------------------------------------------------------
\* Specification SpecBinMatrix: bin_matrix on a tensor of probabilities
\* (are_logits=False).  A probability is a whole number of ProbDen-ths.

\* Denominator of the probabilities.
ProbDen == 6

\* Largest number of bins of the probability tensor.
MaxDecBins == 3

\* Number of cells (residue pairs) of the probability tensor.
NumCells == 1

Cells == 1..NumCells

RECURSIVE SumTo(_, _)
\* f[0] + ... + f[b]
SumTo(f, b) == IF b < 0 THEN 0 ELSE f[b] + SumTo(f, b - 1)

\* The distributions over bins 0..nb-1: numerators that add up to ProbDen.
Distributions(nb) ==
    {p \in [0..(nb - 1) -> 0..ProbDen] : SumTo(p, nb - 1) = ProbDen}

\* probs.max(dim)[1]: the indices a maximum is found at.
MaxIndices(p) == {b \in DOMAIN p : \A c \in DOMAIN p : p[b] >= p[c]}

\* torch.sum(probs.mul(bin_indices)): numerator of the weighted sum.
WeightedSum(p) ==
    LET nb == Cardinality(DOMAIN p)
    IN  SumTo([b \in 0..(nb - 1) |-> b * p[b]], nb - 1)

RoundHalfUp(num, den) ==
    LET q == num \div den
        r == num % den
    IN  IF 2 * r >= den THEN q + 1 ELSE q

\* torch.round on num / den (num >= 0): to the nearest integer, an exact
\* half to the even one.
RoundHalfEven(num, den) ==
    LET q == num \div den
        r == num % den
    IN  IF 2 * r < den THEN q
        ELSE IF 2 * r > den THEN q + 1
        ELSE IF q % 2 = 0 THEN q ELSE q + 1

Methods == {"max", "avg", "average"}

InitBinMatrix ==
    /\ pc = "input"
    /\ num_bins \in 2..MaxDecBins
    /\ probs \in [Cells -> Distributions(num_bins)]
    /\ method \in Methods
    /\ predicted = Unset
    /\ error = "none"
    /\ IdleBins /\ IdlePipe /\ IdleMat /\ IdleLogits /\ IdleFs

BinMatrixMax ==
    /\ pc = "input" /\ method = "max"
    /\ predicted' \in [Cells -> 0..(num_bins - 1)]
    /\ \A c \in Cells : predicted'[c] \in MaxIndices(probs[c])
    /\ pc' = "returned"
    /\ UNCHANGED <<num_bins, logitVars, fsVars, binVars, pipeVars, matVars, probs, method, error>>

BinMatrixAvg ==
    /\ pc = "input" /\ method = "avg"
    /\ predicted' = [c \in Cells |-> RoundHalfEven(WeightedSum(probs[c]), ProbDen)]
    /\ pc' = "returned"
    /\ UNCHANGED <<num_bins, logitVars, fsVars, binVars, pipeVars, matVars, probs, method, error>>

BinMatrixInvalid ==
    /\ pc = "input" /\ method \notin {"max", "avg"}
    /\ error' = "ValueError"
    /\ pc' = "raised"
    /\ UNCHANGED <<num_bins, logitVars, fsVars, binVars, pipeVars, matVars, probs, method, predicted>>

NextBinMatrix ==
    \/ BinMatrixMax
    \/ BinMatrixAvg
    \/ BinMatrixInvalid

SpecBinMatrix == InitBinMatrix /\ [][NextBinMatrix]_vars

---------------------------------------------------------------------------
\* Specification SpecLogits: the functions that take a tensor of logits
\* (bin_matrix with the default are_logits=True, contact_probs,
\* logits_to_contact_map, pairwise_contact_probs).
\*
\* A logit is 0 or 1, so a tensor of the model is also what a one-hot
\* probability tensor looks like.  The softmax weights are exp(0) = 1 and
\* exp(1) = e; a real number of this part is a polynomial in e with integer
\* coefficients, [one |-> a, e |-> b, e2 |-> c] standing for a + b*e + c*e^2.

\* Length of the sequence (the tensors are SeqLen x SeqLen per bin).
SeqLen == 3

\* Largest number of bins of a tensor of logits.
MaxLogitBins == 4

\* Largest ang8_bin argument.
MaxAng8 == 1

\* e lies strictly between EulerLo / EulerDen and EulerHi / EulerDen.
EulerLo == 2718
EulerHi == 2719
EulerDen == 1000

LIdx == 0..(SeqLen - 1)
Pairs == LIdx \X LIdx

Poly(a, b, c) == [one |-> a, e |-> b, e2 |-> c]
PolyAdd(p, q) == Poly(p.one + q.one, p.e + q.e, p.e2 + q.e2)
PolySub(p, q) == Poly(p.one - q.one, p.e - q.e, p.e2 - q.e2)
PolyTimes(k, p) == Poly(k * p.one, k * p.e, k * p.e2)
\* Product of two polynomials of degree one.
PolyMul(p, q) ==
    Poly(p.one * q.one, p.one * q.e + p.e * q.one, p.e * q.e)
PolyZero(p) == p.one = 0 /\ p.e = 0 /\ p.e2 = 0

\* p > 0, decided on a lower bound of p (e is transcendental, so p = 0 only
\* when every coefficient is 0; the coefficients of the model are small
\* enough for the bounds of e to separate every other value from 0).
PolyPos(p) ==
    LET t1 == IF p.e >= 0 THEN p.e * EulerLo * EulerDen
                          ELSE p.e * EulerHi * EulerDen
        t2 == IF p.e2 >= 0 THEN p.e2 * EulerLo * EulerLo
                           ELSE p.e2 * EulerHi * EulerHi
    IN  p.one * EulerDen * EulerDen + t1 + t2 > 0

\* torch.exp of a logit, as Softmax applies it.
Exp(l) == IF l = 0 THEN Poly(1, 0, 0) ELSE Poly(0, 1, 0)

RECURSIVE SumExp(_, _)
\* exp(col[0]) + ... + exp(col[b])
SumExp(col, b) ==
    IF b < 0 THEN Poly(0, 0, 0) ELSE PolyAdd(Exp(col[b]), SumExp(col, b - 1))

\* A probability is a quotient [num, den] of two polynomials, den > 0.
GreaterProb(p, q) == PolyPos(PolySub(PolyMul(p.num, q.den), PolyMul(q.num, p.den)))
EqualProb(p, q) == PolyZero(PolySub(PolyMul(p.num, q.den), PolyMul(q.num, p.den)))
GreaterHalf(p) == PolyPos(PolySub(PolyTimes(2, p.num), p.den))
IsOne(p) == PolyZero(PolySub(p.num, p.den))

Min(a, b) == IF a <= b THEN a ELSE b

\* generate_probabilities: a tensor that does not have four dimensions is
\* refused; otherwise the softmax over the bins of every pair.
generate_probabilities(t, d, nb) ==
    IF d # 4 THEN "ValueError"
    ELSE [c \in Pairs |->
            [b \in 0..(nb - 1) |->
                [num |-> Exp(t[c][b]), den |-> SumExp(t[c], nb - 1)]]]

contact_probs_exclusive(t, k, nb) ==
    [c \in Pairs |->
        [num |-> SumExp(t[c], Min(k, nb) - 1), den |-> SumExp(t[c], nb - 1)]]

\* contact_probs: unsqueeze(0) makes the tensor four-dimensional, then
\* probs[:, :, :ang8_bin+1].sum(2) (a slice stops at the last bin).
contact_probs(t, k, nb) ==
    [c \in Pairs |->
        [num |-> SumExp(t[c], Min(k, nb - 1)), den |-> SumExp(t[c], nb - 1)]]

GreaterOrEqualHalf(p) == ~PolyPos(PolySub(p.den, PolyTimes(2, p.num)))

Threshold(p) == GreaterHalf(p)

logits_to_contact_map(t, k, nb) ==
    [c \in Pairs |-> Threshold(contact_probs(t, k, nb)[c])]

RECURSIVE RowMajor(_, _)
\* The loops of pairwise_contact_probs from position m on: rows in order,
\* columns in order within a row, only the pairs with i < j appended.
RowMajor(cp, m) ==
    IF m >= SeqLen * SeqLen THEN <<>>
    ELSE LET i == m \div SeqLen
             j == m % SeqLen
         IN  (IF i < j THEN <<<<i, j, cp[<<i, j>>]>>>> ELSE <<>>)
                 \o RowMajor(cp, m + 1)

RECURSIVE InsertBeforeEqual(_, _)
InsertBeforeEqual(x, s) ==
    IF s = <<>> THEN <<x>>
    ELSE IF ~GreaterProb(Head(s)[3], x[3]) THEN <<x>> \o s
    ELSE <<Head(s)>> \o InsertBeforeEqual(x, Tail(s))

RECURSIVE Insert(_, _)
\* list.sort(key=lambda x: -x[2]) is stable: a tuple goes behind every
\* tuple already placed whose p is at least its own.
Insert(x, s) ==
    IF s = <<>> THEN <<x>>
    ELSE IF GreaterProb(x[3], Head(s)[3]) THEN <<x>> \o s
    ELSE <<Head(s)>> \o Insert(x, Tail(s))

RECURSIVE SortByProb(_, _)
SortByProb(l, acc) ==
    IF l = <<>> THEN acc ELSE SortByProb(Tail(l), Insert(Head(l), acc))

pairwise_contact_probs(t, k, nb) ==
    SortByProb(RowMajor(contact_probs(t, k, nb), 0), <<>>)

\* probs.max(dim)[1] on the probabilities of one pair: the bins a maximum
\* is found at.
MaxIndicesOf(p) == {b \in DOMAIN p : \A c \in DOMAIN p : ~GreaterProb(p[c], p[b])}

\* Which of several maxima probs.max reports is not specified: the first
\* or the last one.
TieRules == {"first", "last"}
PickMax(S, rule) ==
    IF rule = "first" THEN CHOOSE b \in S : \A c \in S : b <= c
    ELSE CHOOSE b \in S : \A c \in S : b >= c

RECURSIVE SumIndexed(_, _)
\* 0 * p[0].num + ... + b * p[b].num
SumIndexed(p, b) ==
    IF b < 0 THEN Poly(0, 0, 0)
    ELSE PolyAdd(PolyTimes(b, p[b].num), SumIndexed(p, b - 1))

\* torch.round of the real number v.num / v.den, 0 <= v <= nb: the nearest
\* integer, an exact half to the even one.
RoundHalfEvenReal(v, nb) ==
    CHOOSE q \in 0..nb :
        LET up == PolySub(PolyTimes(2, v.num), PolyTimes(2 * q + 1, v.den))
            dn == PolySub(PolyTimes(2, v.num), PolyTimes(2 * q - 1, v.den))
        IN  \/ PolyPos(dn) /\ PolyPos(PolyTimes(0 - 1, up))
            \/ PolyZero(up) /\ q % 2 = 0
            \/ PolyZero(dn) /\ q % 2 = 0

\* bin_matrix with are_logits=True: the outcomes of a call, each the
\* exception raised (or "none") and the tensor returned.
bin_matrix(t, d, m, nb) ==
    IF d # 4 THEN {[error |-> "ValueError", predicted |-> Unset]}
    ELSE LET pr == generate_probabilities(t, d, nb)
         IN  IF m = "max"
             THEN {[error |-> "none",
                    predicted |-> [c \in Pairs |-> PickMax(MaxIndicesOf(pr[c]), r)]]
                   : r \in TieRules}
             ELSE IF m = "avg"
             THEN {[error |-> "none",
                    predicted |->
                      [c \in Pairs |->
                         RoundHalfEvenReal(
                           [num |-> SumIndexed(pr[c], nb - 1), den |-> pr[c][0].den],
                           nb)]]}
             ELSE {[error |-> "ValueError", predicted |-> Unset]}

\* The logits of one pair: all zero, or 1 in the first or in the last bin
\* and 0 in the others.
Columns(nb) ==
    {[b \in 0..(nb - 1) |-> 0]}
        \cup {[b \in 0..(nb - 1) |-> IF b = h THEN 1 ELSE 0] : h \in {0, nb - 1}}

UpperPairs == {c \in Pairs : c[1] < c[2]}

\* The tensors the model draws: symmetric, one column on the whole diagonal.
Tensors(nb) ==
    {[c \in Pairs |->
        IF c[1] < c[2] THEN u[c]
        ELSE IF c[1] > c[2] THEN u[<<c[2], c[1]>>] ELSE dg]
     : u \in [UpperPairs -> Columns(nb)], dg \in Columns(nb)}

InitLogits ==
    /\ pc = "input"
    /\ \E nb \in 2..MaxLogitBins : num_bins = nb /\ logits \in Tensors(nb)
    /\ ndim = 0 /\ ang8_bin = 0 /\ contacts = Unset
    /\ IdleBins /\ IdlePipe /\ IdleMat /\ IdleDec /\ IdleFs

BinMatrixLogits ==
    /\ pc = "input"
    /\ \E d \in {3, 4}, m \in Methods :
        \E o \in bin_matrix(logits, d, m, num_bins) :
            /\ ndim' = d /\ method' = m
            /\ error' = o.error /\ predicted' = o.predicted
    /\ pc' = "bin_matrix"
    /\ UNCHANGED <<num_bins, fsVars, binVars, pipeVars, matVars, probs,
                   logits, ang8_bin, contacts>>

ContactProbs ==
    /\ pc = "input"
    /\ \E k \in 0..MaxAng8 :
        /\ ang8_bin' = k
        /\ contacts' = contact_probs(logits, k, num_bins)
    /\ pc' = "contact_probs"
    /\ UNCHANGED <<num_bins, fsVars, binVars, pipeVars, matVars, decVars, logits, ndim>>

LogitsToContactMap ==
    /\ pc = "input"
    /\ \E k \in 0..MaxAng8 :
        /\ ang8_bin' = k
        /\ contacts' = logits_to_contact_map(logits, k, num_bins)
    /\ pc' = "contact_map"
    /\ UNCHANGED <<num_bins, fsVars, binVars, pipeVars, matVars, decVars, logits, ndim>>

PairwiseContactProbs ==
    /\ pc = "input"
    /\ \E k \in 0..MaxAng8 :
        /\ ang8_bin' = k
        /\ contacts' = pairwise_contact_probs(logits, k, num_bins)
    /\ pc' = "pairwise"
    /\ UNCHANGED <<num_bins, fsVars, binVars, pipeVars, matVars, decVars, logits, ndim>>

NextLogits ==
    \/ BinMatrixLogits
    \/ ContactProbs
    \/ LogitsToContactMap
    \/ PairwiseContactProbs

SpecLogits == InitLogits /\ [][NextLogits]_vars

---------------------------------------------------------------------------
\* Specification SpecSplit: split_dir, one step per iteration of its loops.
\* Directories are named by numbers; a proportion is a whole number of
\* PropDen-ths.

\* Number of target directories of a call (the length of dir_names and of
\* split_proportions); the directory names are 1..NumSplits.
NumSplits == 2

\* Number of files of the directory being split.
NumFiles == 2

\* Denominator of the proportions.
PropDen == 2

DirNames == 1..NumSplits
FileNames == 1..NumFiles

RECURSIVE SumSeq(_, _)
\* s[1] + ... + s[k]
SumSeq(s, k) == IF k = 0 THEN 0 ELSE s[k] + SumSeq(s, k - 1)

\* np.random.shuffle: the orders the files can come out in.
Shuffles == {f \in [FileNames -> FileNames] : \A a, b \in FileNames : f[a] = f[b] => a = b}

\* files[cur_index:end_index]
Slice(f, from, to) == {f[x] : x \in {y \in FileNames : from < y /\ y <= to}}

InitSplit ==
    /\ pc = "input"
    /\ fs_dirs \in SUBSET DirNames
    /\ fs_before = fs_dirs
    /\ dir_names \in [1..NumSplits -> DirNames]
    /\ proportions \in [1..NumSplits -> 0..PropDen]
    /\ files = Unset /\ copied = {} /\ cur_index = 0 /\ loop_i = 0
    /\ num_bins = 0
    /\ IdleBins /\ IdlePipe /\ IdleMat /\ IdleDec /\ IdleLogits

\* if sum(split_proportions) != 1: raise ValueError
CheckProportions ==
    /\ pc = "input"
    /\ IF SumSeq(proportions, NumSplits) # PropDen
       THEN /\ error' = "ValueError" /\ pc' = "raised"
            /\ UNCHANGED loop_i
       ELSE /\ pc' = "mkdir" /\ loop_i' = 1
            /\ UNCHANGED error
    /\ UNCHANGED <<num_bins, logitVars, binVars, pipeVars, matVars, probs, method,
                   predicted, fs_dirs, fs_before, dir_names, proportions, files,
                   copied, cur_index>>

\* One iteration of the loop over dir_names: raise when the directory
\* exists, make it otherwise.
MakeDir ==
    /\ pc = "mkdir" /\ loop_i <= NumSplits
    /\ IF dir_names[loop_i] \in fs_dirs
       THEN /\ error' = "ValueError" /\ pc' = "raised"
            /\ UNCHANGED <<fs_dirs, loop_i>>
       ELSE /\ fs_dirs' = fs_dirs \cup {dir_names[loop_i]}
            /\ loop_i' = loop_i + 1
            /\ UNCHANGED <<pc, error>>
    /\ UNCHANGED <<num_bins, logitVars, binVars, pipeVars, matVars, probs, method,
                   predicted, fs_before, dir_names, proportions, files, copied,
                   cur_index>>

\* The files of the directory are listed and shuffled.
ShuffleFiles ==
    /\ pc = "mkdir" /\ loop_i > NumSplits
    /\ files' \in Shuffles
    /\ cur_index' = 0 /\ loop_i' = 1
    /\ pc' = "copy"
    /\ UNCHANGED <<num_bins, logitVars, binVars, pipeVars, matVars, decVars,
                   fs_dirs, fs_before, dir_names, proportions, copied>>

\* One iteration of the loop over the directories: the next share of the
\* files is copied, the last directory takes the rest.
CopyShare ==
    /\ pc = "copy" /\ loop_i <= NumSplits
    /\ LET end_index ==
               IF loop_i = NumSplits THEN NumFiles
               ELSE cur_index + ((NumFiles * proportions[loop_i]) \div PropDen)
       IN  /\ copied' = copied \cup
                 {<<dir_names[loop_i], f>> : f \in Slice(files, cur_index, end_index)}
           /\ cur_index' = end_index
    /\ loop_i' = loop_i + 1
    /\ UNCHANGED <<num_bins, logitVars, binVars, pipeVars, matVars, decVars,
                   fs_dirs, fs_before, dir_names, proportions, files, pc>>

SplitDone ==
    /\ pc = "copy" /\ loop_i > NumSplits
    /\ pc' = "done"
    /\ UNCHANGED <<num_bins, logitVars, binVars, pipeVars, matVars, decVars, fsVars>>

NextSplit ==
    \/ CheckProportions
    \/ MakeDir
    \/ ShuffleFiles
    \/ CopyShare
    \/ SplitDone

SpecSplit == InitSplit /\ [][NextSplit]_vars

---------------------------------------------------------------------------
\* Properties of the bin table generator (checked under SpecBins).

HasBins == pc \in {"bins", "values"}

\* Number of table positions whose interval holds v.
BinsHolding(v) == Cardinality({k \in 1..Len(bins) : InBin(v, bins[k])})

\* Every upper bound is the next interval's lower bound.
Contiguous == \A k \in 1..(Len(bins) - 1) : bins[k][2] = bins[k + 1][1]

\* C1: for num_bins >= 3 get_dist_bins returns exactly num_bins half-open
\* intervals: [0, 4.0) first, then num_bins - 2 intervals of width 0.5 from
\* 4.0 on, then [last_upper, +Inf); the intervals are contiguous and every
\* distance >= 0 lies in exactly one of them.
C1_DistBinsPartition ==
    (HasBins /\ kind = "dist") =>
        /\ Len(bins) = num_bins
        /\ bins[1] = <<0, Real(4)>>
        /\ \A i \in 1..(num_bins - 2) :
              /\ bins[i + 1][1] = Real(4) + (i - 1) * (Scale \div 2)
              /\ bins[i + 1][2] - bins[i + 1][1] = Scale \div 2
        /\ bins[num_bins] = <<bins[num_bins - 1][2], Inf>>
        /\ Contiguous
        /\ (probe >= 0 => BinsHolding(probe) = 1)

C1_Witness ==
    /\ pc = "bins" /\ kind = "dist" /\ num_bins = MaxNumBins
    /\ probe > Real(4)
    /\ InBin(probe, bins[num_bins])

C3_BinValues ==
    (pc = "values") =>
        LET h == (bins[3][1] - bins[2][1]) \div 2
        IN  /\ Len(bin_values) = Len(bins)
            /\ 2 * h = bins[3][1] - bins[2][1]
            /\ \A k \in 2..Len(bins) : bin_values[k] = bins[k][1] + h
            /\ bin_values[1] = bin_values[2] - 2 * h
            /\ (kind = "dist") =>
                  /\ 4 * bin_values[1] = Real(15)
                  /\ \A k \in 2..Len(bins) : 4 * (bin_values[k] - bins[k][1]) = Real(1)
            /\ (kind # "dist") =>
                  \A k \in 1..Len(bins) : 2 * bin_values[k] = bins[k][1] + bins[k][2]

C3_Witness ==
    /\ pc = "values" /\ kind = "dist" /\ num_bins = MinNumBins
    /\ bin_values[1] < bins[1][2]
    /\ bin_values[num_bins] > bins[num_bins][1]

---------------------------------------------------------------------------
\* Properties of the geometry, binning and debinning pipeline (checked
\* under SpecPipe).

Tables == <<get_dist_bins(num_bins), get_omega_bins(num_bins),
            get_theta_bins(num_bins), get_phi_bins(num_bins)>>

\* v lies strictly inside the non-edge bin at table position k.
StrictlyInside(v, table, k) ==
    /\ k \in 2..(Len(table) - 1)
    /\ v # NaN /\ v > table[k][1] /\ v < table[k][2]

\* Residue pair (i, j) is excluded by mask m (NoMask excludes nothing).
Excluded(m, i, j) == m # NoMask /\ (m[i] = 0 \/ m[j] = 0)

\* C4: a value strictly inside a non-edge bin of its table, binned and then
\* debinned, comes back as that bin's representative value (its midpoint),
\* wherever inside the bin it lay; for bin_distance_matrix this is about the
\* entries its mask argument does not exclude.
C4_BinThenDebin ==
    /\ (pc = "dist_values") =>
          \A i, j \in Idx : \A k \in 1..num_bins :
              (StrictlyInside(feat.m[i][j], Tables[1], k) /\ ~Excluded(binned.mask, i, j))
                  => 2 * values[i][j] = Tables[1][k][1] + Tables[1][k][2]
    /\ (pc = "stack_values") =>
          \A c \in 1..4 : \A i, j \in Idx : \A k \in 1..num_bins :
              StrictlyInside(feat.m[c][i][j], Tables[c], k)
                  => 2 * values[c][i][j] = Tables[c][k][1] + Tables[c][k][2]

C4_Witness ==
    /\ pc = "stack_values"
    /\ \E i, j \in Idx : \E k1, k2 \in 1..num_bins :
          /\ StrictlyInside(feat.m[1][i][j], Tables[1], k1)
          /\ 2 * feat.m[1][i][j] # Tables[1][k1][1] + Tables[1][k1][2]
          /\ StrictlyInside(feat.m[2][i][j], Tables[2], k2)
          /\ 2 * feat.m[2][i][j] # Tables[2][k2][1] + Tables[2][k2][2]
          /\ 2 * values[2][i][j] = Tables[2][k2][1] + Tables[2][k2][2]

\* The value a generator computes at (i, j) before any mask is applied.
Computed(fn, i, j) ==
    CASE fn = "generate_dist_matrix" ->
            generate_dist_matrix(Coords, NoMask, 0)[i][j]
      [] fn = "generate_euler_matrix" ->
            generate_euler_matrix(residues, NoMask, 0)[i][j]
      [] fn = "generate_cb_cb_dihedral" ->
            generate_cb_cb_dihedral(residues, AllOnes, 0)[i][j]
      [] fn = "generate_ca_cb_dihedral" ->
            generate_ca_cb_dihedral(residues, AllOnes, 0)[i][j]
      [] fn = "generate_ca_cb_cb_planar" ->
            generate_ca_cb_cb_planar(residues, AllOnes, 0)[i][j]

\* The sentinel as an entry of matrix kind fn (a triple in Euler matrices).
Sentinel(fn, fill) ==
    IF fn = "generate_euler_matrix" THEN <<fill, fill, fill>> ELSE fill

\* C6: given a 0/1 mask, the generators and the binning functions return a
\* matrix whose entry (i, j) equals the sentinel exactly when mask[i] = 0 or
\* mask[j] = 0; every other entry keeps its computed value, or its bin index
\* in 0..num_bins-1.
C6_SentinelExactlyOnMasked ==
    /\ (pc \in {"dist", "angle", "euler"} /\ feat.mask # NoMask) =>
          \A i, j \in Idx :
              /\ (feat.m[i][j] = Sentinel(feat.fn, Real(mask_fill_value)))
                    <=> Excluded(feat.mask, i, j)
              /\ ~Excluded(feat.mask, i, j) => feat.m[i][j] = Computed(feat.fn, i, j)
    /\ (pc = "dist_binned" /\ binned.mask # NoMask) =>
          \A i, j \in Idx :
              /\ (binned.m[i][j] = mask_fill_value) <=> Excluded(binned.mask, i, j)
              /\ ~Excluded(binned.mask, i, j) => binned.m[i][j] \in 0..(num_bins - 1)
    /\ (pc = "euler_binned" /\ binned.mask # NoMask) =>
          \A i, j \in Idx :
              /\ (binned.m[i][j] = <<mask_fill_value, mask_fill_value, mask_fill_value>>)
                    <=> Excluded(binned.mask, i, j)
              /\ ~Excluded(binned.mask, i, j) =>
                    \A k \in 1..3 : binned.m[i][j][k] \in 0..(num_bins - 1)

\* The mask protein_dist_angle_matrix applies to channel c of its stack.
ChannelMask(c) ==
    LET mask1 == IF feat.mask = NoMask THEN AllOnes ELSE feat.mask
    IN  IF c = 1 THEN mask1 ELSE BitAnd(mask1, cb_mask_of(residues))

\* C7: in the binned stack of protein_dist_angle_matrix every entry of every
\* channel whose residue i or j is invalid under that channel's mask holds
\* the marker -1, and all entries lie in {-1} \cup 0..num_bins-1.
C7_BinnedStackKeepsMarker ==
    (pc = "stack_binned") =>
        \A c \in 1..4 : \A i, j \in Idx :
            /\ Excluded(ChannelMask(c), i, j) => binned.m[c][i][j] = mask_fill_value
            /\ binned.m[c][i][j] \in {mask_fill_value} \cup 0..(num_bins - 1)

\* The representative values of table t.
Representatives(t) == {get_bin_values(t)[k] : k \in 1..Len(t)}

\* C8: debinning never decodes the invalid marker -1 to the representative
\* value of a bin 0..num_bins-1.
C8_MarkerNotDecoded ==
    /\ (pc = "dist_values") =>
          \A i, j \in Idx :
              binned.m[i][j] = mask_fill_value
                  => values[i][j] \notin Representatives(Tables[1])
    /\ (pc = "euler_values") =>
          \A i, j \in Idx : \A k \in 1..3 :
              binned.m[i][j][k] = mask_fill_value
                  => values[i][j][k] \notin Representatives(get_angle_bins(num_bins))
    /\ (pc = "stack_values") =>
          \A c \in 1..4 : \A i, j \in Idx :
              binned.m[c][i][j] = mask_fill_value
                  => values[c][i][j] \notin Representatives(Tables[c])

\* The Euclidean distance of residues i and j.
Distance(i, j) == Norm(Coords[i], Coords[j])

\* Lower bound of the last (unbounded) distance bin: 4.0 + 0.5 (num_bins - 2).
LastLower == Real(4) + (num_bins - 2) * (Scale \div 2)

\* C9 as stated: with all residues valid, for every ordered pair (i = j
\* included) the distance generated, binned and debinned differs from the
\* Euclidean distance by at most 0.5.
C9_WithinOneBinWidth ==
    (pc = "dist_values" /\ mask = AllOnes) =>
        \A i, j \in Idx : Abs(values[i][j] - Distance(i, j)) <= Scale \div 2

\* C9 amended: with all residues valid, the distance generated, binned and
\* debinned differs from the Euclidean distance d by at most 0.5 exactly for
\* the pairs with 3.25 <= d <= 4.75 + 0.5 (num_bins - 2); a pair i = j has
\* d = 0 and decodes to 3.75.
C9_WithinOneBinWidthInRange ==
    (pc = "dist_values" /\ mask = AllOnes) =>
        \A i, j \in Idx :
            /\ (Abs(values[i][j] - Distance(i, j)) <= Scale \div 2)
                  <=> /\ 4 * Distance(i, j) >= Real(13)
                      /\ 4 * Distance(i, j) <= 4 * LastLower + Real(3)
            /\ (i = j) => (Distance(i, j) = 0 /\ 4 * values[i][j] = Real(15))

C9_Witness ==
    /\ pc = "dist_values" /\ mask = AllOnes
    /\ \E i, j \in Idx :
          /\ i # j
          /\ Distance(i, j) < Real(4) /\ 4 * Distance(i, j) >= Real(13)
          /\ Abs(values[i][j] - Distance(i, j)) <= Scale \div 2
          /\ Abs(values[i][i] - Distance(i, i)) > Scale \div 2

---------------------------------------------------------------------------
\* Properties of mask_matrix_ (checked under SpecMask).

\* C5: mask_matrix_ overwrites with the fill value every entry (i, j) where
\* mask[i] = 0 or mask[j] = 0 and leaves every entry whose two residues are
\* valid unchanged.
C5_MaskMatrixFillsInvalid ==
    (pc = "masked") =>
        \A i, j \in Idx :
            mat[i][j] = IF mask[i] = 0 \/ mask[j] = 0
                        THEN Real(not_mask_fill_value)
                        ELSE mat_before[i][j]

---------------------------------------------------------------------------
\* Properties of bin_matrix (checked under SpecBinMatrix).

---------------------------------------------------------------------------
\* Properties of the functions on logits (checked under SpecLogits).

\* Every pair of the tensor has 1 in bin 0 and 0 in every other bin.
AllMassInBin0 ==
    \A c \in Pairs : \A b \in 0..(num_bins - 1) :
        logits[c][b] = (IF b = 0 THEN 1 ELSE 0)

\* C11: bin_matrix called with a three-dimensional tensor of logits and
\* are_logits=True, under the method name 'max' or 'average', raises nothing
\* and returns one bin index per residue pair.
C11_BinMatrixTakes3dLogits ==
    (pc = "bin_matrix" /\ ndim = 3 /\ method \in {"max", "average"}) =>
        /\ error = "none"
        /\ DOMAIN predicted = Pairs
        /\ \A c \in Pairs : predicted[c] \in 0..(num_bins - 1)

\* C12 as stated: on a tensor with all mass in bin 0, contact_probs returns
\* 1.0 for every pair and logits_to_contact_map marks every pair.
C12_AllMassInBin0IsContact ==
    AllMassInBin0 =>
        /\ pc = "contact_probs" => \A c \in Pairs : IsOne(contacts[c])
        /\ pc = "contact_map" => \A c \in Pairs : contacts[c] = TRUE

\* The last bin the slice :ang8_bin+1 keeps.
LastKept == Min(ang8_bin, num_bins - 1)

\* C12 as amended: the tensor is taken as logits, so on a tensor with 1 in
\* bin 0 and 0 elsewhere every pair gets (e + k) / (e + num_bins - 1), k the
\* last bin kept; that is 1.0 exactly when no bin lies beyond ang8_bin, and
\* the pair is marked exactly when e + 2k + 1 > num_bins.
C12_OneHotTakenAsLogits ==
    AllMassInBin0 =>
        /\ pc = "contact_probs" =>
              \A c \in Pairs :
                /\ EqualProb(contacts[c],
                             [num |-> Poly(LastKept, 1, 0),
                              den |-> Poly(num_bins - 1, 1, 0)])
                /\ IsOne(contacts[c]) <=> num_bins <= ang8_bin + 1
        /\ pc = "contact_map" =>
              \A c \in Pairs :
                contacts[c] = PolyPos(Poly(2 * LastKept + 1 - num_bins, 1, 0))

C12_Witness ==
    /\ AllMassInBin0
    /\ pc = "contact_map" /\ ang8_bin = 0 /\ num_bins = 4
    /\ \A c \in Pairs : contacts[c] = FALSE

\* Number of bins of pair c, among 0..LastKept or among all, holding logit l.
Count(c, upto, l) == Cardinality({b \in 0..upto : logits[c][b] = l})

\* Twice the mass of pair c in bins 0..ang8_bin minus the whole mass, both
\* before normalisation: positive exactly when the normalised mass in those
\* bins is above 0.50.
TwiceKeptMinusAll(c) ==
    Poly(2 * Count(c, LastKept, 0) - Count(c, num_bins - 1, 0),
         2 * Count(c, LastKept, 1) - Count(c, num_bins - 1, 1), 0)

\* C13: logits_to_contact_map marks a pair exactly when its normalised mass
\* in bins 0..ang8_bin is strictly above 0.50; a mass of exactly 0.50 is
\* not a contact.
C13_ContactIffAboveHalf ==
    pc = "contact_map" =>
        \A c \in Pairs :
            /\ contacts[c] = PolyPos(TwiceKeptMinusAll(c))
            /\ PolyZero(TwiceKeptMinusAll(c)) => contacts[c] = FALSE

C13_Witness ==
    /\ pc = "contact_map"
    /\ \E c \in Pairs : PolyZero(TwiceKeptMinusAll(c)) /\ contacts[c] = FALSE
    /\ \E c \in Pairs : PolyPos(TwiceKeptMinusAll(c)) /\ contacts[c] = TRUE
    /\ \E c \in Pairs : ~PolyPos(TwiceKeptMinusAll(c))
                          /\ ~PolyZero(TwiceKeptMinusAll(c)) /\ contacts[c] = FALSE

\* Tuple m of the list comes before tuple n in the order of the loops.
RowMajorBefore(x, y) == x[1] < y[1] \/ (x[1] = y[1] /\ x[2] < y[2])

\* C14: pairwise_contact_probs returns one tuple (i, j, p) per pair i < j and
\* no other, p the contact probability of the pair, ordered by
\* non-increasing p, tuples of equal p in the order of the loops.
C14_PairwiseSortedStable ==
    pc = "pairwise" =>
        LET cp == contact_probs(logits, ang8_bin, num_bins)
            n == Len(contacts)
        IN  /\ 2 * n = SeqLen * (SeqLen - 1)
            /\ \A m \in 1..n :
                  /\ contacts[m][1] \in LIdx /\ contacts[m][2] \in LIdx
                  /\ contacts[m][1] < contacts[m][2]
                  /\ contacts[m][3] = cp[<<contacts[m][1], contacts[m][2]>>]
            /\ \A c \in UpperPairs :
                  Cardinality({m \in 1..n :
                      contacts[m][1] = c[1] /\ contacts[m][2] = c[2]}) = 1
            /\ \A m \in 1..n : \A o \in 1..n :
                  m < o =>
                    /\ ~GreaterProb(contacts[o][3], contacts[m][3])
                    /\ EqualProb(contacts[m][3], contacts[o][3])
                          => RowMajorBefore(contacts[m], contacts[o])

C14_Witness ==
    /\ pc = "pairwise" /\ Len(contacts) = 3
    /\ contacts[1][1] = 1 /\ contacts[1][2] = 2
    /\ GreaterProb(contacts[1][3], contacts[2][3])
    /\ EqualProb(contacts[2][3], contacts[3][3])
    /\ contacts[2][1] = 0 /\ contacts[2][2] = 1
    /\ contacts[3][1] = 0 /\ contacts[3][2] = 2

---------------------------------------------------------------------------
\* Properties of split_dir (checked under SpecSplit).

\* C15: when a target directory of split_dir exists already, the call
\* fails with the file system as it was: no directory made, no file copied.
C15_FailsBeforeMutating ==
    (pc = "raised" /\ \E k \in 1..NumSplits : dir_names[k] \in fs_before) =>
        fs_dirs = fs_before /\ copied = {}

---------------------------------------------------------------------------
\* Properties of the structure entry points (checked under SpecProtein).

\* Residue r has the atoms channel ch is computed from.
HasAtomsFor(r, ch) ==
    IF ch = "dist" THEN "CA" \in r.atoms \/ "CB" \in r.atoms
    ELSE IF ch = "euler" THEN {"N", "CA", "C"} \subseteq r.atoms
    ELSE {"N", "CA", "CB"} \subseteq r.atoms

\* Every entry of matrix m in the row or the column of residue i is fill.
RowAndColumnAre(m, i, fill) ==
    \A j \in Idx : m[i][j] = fill /\ m[j][i] = fill

\* C16: an entry point called without a mask gives the sentinel -1 to every
\* entry of a channel that involves a residue lacking an atom the channel
\* needs (CA and CB both for the distance, N, CA or C for the Euler angles,
\* N, CA or CB for the dihedral and planar angles).
C16_MissingAtomsAreMasked ==
    (pc \in {"dist", "euler", "stack"} /\ feat.mask = NoMask) =>
        \A i \in Idx :
            LET r == residues[i]
                fill == Real(mask_fill_value)
            IN  /\ (feat.fn = "protein_dist_matrix" /\ ~HasAtomsFor(r, "dist"))
                      => RowAndColumnAre(feat.m, i, fill)
                /\ (feat.fn = "protein_euler_matrix" /\ ~HasAtomsFor(r, "euler"))
                      => RowAndColumnAre(feat.m, i, <<fill, fill, fill>>)
                /\ (feat.fn = "protein_dist_angle_matrix" /\ ~HasAtomsFor(r, "dist"))
                      => RowAndColumnAre(feat.m[1], i, fill)
                /\ (feat.fn = "protein_dist_angle_matrix" /\ ~HasAtomsFor(r, "angle"))
                      => \A c \in 2..4 : RowAndColumnAre(feat.m[c], i, fill)

---------------------------------------------------------------------------
\* Properties of the binning functions on probes (checked under SpecProbe).

\* v lies in no interval of the table.
InNoInterval(v, table) == \A k \in 1..Len(table) : ~Within(v, table[k])

\* C17: an entry the mask does not exclude whose value lies in no interval
\* of its table is given bin index 0 by bin_distance_matrix,
\* bin_euler_matrix and bin_dist_angle_matrix: no marker of its own.
C17_OutOfTableIsBinZero ==
    /\ pc = "dist_binned" =>
          \A i, j \in Idx :
              (InNoInterval(feat.m[i][j], get_dist_bins(num_bins))
                  /\ ~Excluded(binned.mask, i, j))
                => binned.m[i][j] = 0
    /\ pc = "euler_binned" =>
          \A i, j \in Idx : \A k \in 1..3 :
              (InNoInterval(feat.m[i][j][k], get_angle_bins(num_bins))
                  /\ ~Excluded(binned.mask, i, j))
                => binned.m[i][j][k] = 0
    /\ pc = "stack_binned" =>
          \A c \in 1..4 : \A i, j \in Idx :
              InNoInterval(feat.m[c][i][j], Tables[c]) => binned.m[c][i][j] = 0

C17_Witness ==
    /\ pc = "stack_binned"
    /\ feat.m[2][1][1] = Real(180) /\ binned.m[2][1][1] = 0
    /\ feat.m[4][1][1] = Real(180) /\ binned.m[4][1][1] = 0
    /\ feat.m[1][1][1] = Real(5) /\ binned.m[1][1][1] > 0

---------------------------------------------------------------------------
\* Properties of decoding followed by binning (checked under SpecDebin).

\* C18: in every table the representative value of bin i lies inside
\* interval i, the first and the last bin included, so that binning the
\* decoded value of a bin index gives the index back.
C18_DebinThenBin ==
    /\ pc = "stack_values" =>
          \A c \in 1..4 : \A i, j \in Idx :
              InBin(values[c][i][j], Tables[c][probe[c] + 1])
    /\ pc = "stack_rebinned" =>
          \A c \in 1..4 : \A i, j \in Idx : binned.m[c][i][j] = probe[c]

C18_Witness ==
    /\ pc = "stack_rebinned"
    /\ probe[1] = 0 /\ probe[2] = num_bins - 1
    /\ probe[3] = 0 /\ probe[4] = 1
    /\ \A c \in 1..4 : binned.m[c][1][1] = probe[c]

====
